---- MODULE Spec2Model ----
\* Request/response schemas of screfinery (src/screfinery/schema.py): the
\* field declarations of every schema, the validation pydantic runs over a
\* payload when a schema is constructed, the passwords_match validators and
\* the from_orm projections.
EXTENDS Integers, Sequences, FiniteSets, TLC

VARIABLES op, input, output

vars == <<op, input, output>>

\* ---------------------------------------------------------------- bounds
\* Longest explicitly spelled string body (the rest of a string is filler).
MaxBody == 2
\* Longest list drawn for a field that lists nested records.
MaxList == 2
\* Longest list drawn for scopes.
MaxScopes == 1
\* Floats are drawn as multiples of 1/FloatDen.
FloatDen == 2

\* ------------------------------------------------------ program constants
NameMax == 50
ScopeMax == 50
FriendNameMax == 50
EntityNameMax == 50
MailMax == 250
PasswordMax == 250
EffGt == 0
EffLe == 1
DurGt == 0

\* ---------------------------------------------------------------- values
\* A string is its first characters (body) followed by pad filler characters
\* "x"; the filler is an ordinary character different from "@".
Alphabet == {"a", "@"}
Filler == "x"

Null == [t |-> "null"]
Str(body, pad) == [t |-> "str", body |-> body, pad |-> pad]
Bool(b) == [t |-> "bool", b |-> b]
IntVal(n) == [t |-> "int", n |-> n]
\* the float n / FloatDen
Float(n) == [t |-> "float", num |-> n]
DateTime(n) == [t |-> "datetime", at |-> n]
List(items) == [t |-> "list", items |-> items]
Dict(d) == [t |-> "dict", d |-> d]
\* a persisted record: attribute name -> value
Obj(attrs) == [t |-> "obj", attrs |-> attrs]
\* a constructed schema instance
Model(cls, values, fields_set) ==
    [t |-> "model", cls |-> cls, values |-> values, fields_set |-> fields_set]

Chars(s) == s.body \o [i \in 1..s.pad |-> Filler]
StrLen(s) == Len(s.body) + s.pad

\* the empty mapping
Empty == [x \in {} |-> Null]
Put(f, k, v) == [x \in DOMAIN f \cup {k} |-> IF x = k THEN v ELSE f[x]]

\* -------------------------------------------------------- field constraints
\* re.match of ^[^@]+@[^@]+$ : 0 start, 1 inside the first part, 2 just after
\* the "@", 3 inside the second part, 4 dead.
\* Variant: a further "@" is taken after the second part has begun.
MailStepLoose(q, c) ==
    IF c = "@" THEN (IF q \in {1, 3} THEN 2 ELSE 4)
    ELSE CASE q = 0 -> 1
           [] q = 1 -> 1
           [] q = 2 -> 3
           [] q = 3 -> 3
           [] OTHER -> 4

MailStep(q, c) ==
    IF c = "@" THEN (IF q = 1 THEN 2 ELSE 4)
    ELSE CASE q = 0 -> 1
           [] q = 1 -> 1
           [] q = 2 -> 3
           [] q = 3 -> 3
           [] OTHER -> 4

MailStates == 0..4

\* The effect of reading cs[lo..hi] left to right, as a map from the state
\* before to the state after.
RECURSIVE MailRun(_, _, _)
MailRun(cs, lo, hi) ==
    IF lo > hi THEN [q \in MailStates |-> q]
    ELSE IF lo = hi THEN [q \in MailStates |-> MailStep(q, cs[lo])]
    ELSE LET mid == (lo + hi) \div 2
             left == MailRun(cs, lo, mid)
             right == MailRun(cs, mid + 1, hi)
         IN [q \in MailStates |-> right[left[q]]]

MailRegexMatches(s) == MailRun(Chars(s), 1, StrLen(s))[0] = 3

\* pydantic constr_length_validator: too long is len(v) > max_length.
TooLong(s, max) == StrLen(s) > max

\* pydantic number_size_validator for confloat(gt=.., le=..).
GtFails(v, bound) == ~(v.num > bound * FloatDen)
LeFails(v, bound) == ~(v.num <= bound * FloatDen)

\* ----------------------------------------------------------------- types
PlainType(kind) ==
    [kind |-> kind, has_max |-> FALSE, max_length |-> 0, regex |-> FALSE,
     has_gt |-> FALSE, gt |-> 0, has_le |-> FALSE, le |-> 0, of |-> ""]
StrT == PlainType("str")
BoolT == PlainType("bool")
IntT == PlainType("int")
FloatT == PlainType("float")
DateTimeT == PlainType("datetime")
Constr(max) == [PlainType("str") EXCEPT !.has_max = TRUE, !.max_length = max]
ConstrMail(max) == [Constr(max) EXCEPT !.regex = TRUE]
ConstrMailNoMax == [PlainType("str") EXCEPT !.regex = TRUE]
ConfloatGt(g) == [PlainType("float") EXCEPT !.has_gt = TRUE, !.gt = g]
ConfloatGtLe(g, l) == [ConfloatGt(g) EXCEPT !.has_le = TRUE, !.le = l]
ListOf(of) == [PlainType("list") EXCEPT !.of = of]
ModelT(of) == [PlainType("model") EXCEPT !.of = of]

\* A declared field: Optional[...] fields are not required and allow None;
\* post names the class validator bound to the field.
Field(name, type, optional, post) ==
    [name |-> name, type |-> type, required |-> ~optional,
     allow_none |-> optional, post |-> post]
Req(name, type) == Field(name, type, FALSE, "")
Opt(name, type) == Field(name, type, TRUE, "")

\* ---------------------------------------------------------------- schemas
\* Variant: password limited like name.
UserCreateFieldsShortPassword ==
    << Req("name", Constr(NameMax)),
       Req("mail", ConstrMail(MailMax)),
       Req("password", Constr(NameMax)),
       Field("password_confirm", Constr(PasswordMax), FALSE,
             "UserCreate.passwords_match"),
       Req("is_google", BoolT),
       Req("is_active", BoolT),
       Opt("scopes", ListOf("scope")) >>

UserCreateFields ==
    << Req("name", Constr(NameMax)),
       Req("mail", ConstrMail(MailMax)),
       Req("password", Constr(PasswordMax)),
       Field("password_confirm", Constr(PasswordMax), FALSE,
             "UserCreate.passwords_match"),
       Req("is_google", BoolT),
       Req("is_active", BoolT),
       Opt("scopes", ListOf("scope")) >>

UserUpdateFields ==
    << Opt("name", Constr(NameMax)),
       Opt("mail", ConstrMail(MailMax)),
       Opt("password", Constr(PasswordMax)),
       Field("password_confirm", Constr(PasswordMax), TRUE,
             "UserUpdate.passwords_match"),
       Opt("is_google", BoolT),
       Opt("is_active", BoolT),
       Opt("scopes", ListOf("scope")) >>

UserQueryFields ==
    << Opt("id", IntT),
       Opt("name", StrT),
       Opt("mail", ConstrMailNoMax),
       Opt("is_google", BoolT),
       Opt("is_active", BoolT),
       Opt("created", DateTimeT),
       Opt("updated", DateTimeT),
       Opt("last_login", DateTimeT) >>

FriendshipFields ==
    << Req("user_id", IntT),
       Req("user_name", StrT),
       Req("friend_id", IntT),
       Req("friend_name", StrT),
       Req("created", DateTimeT),
       Opt("confirmed", DateTimeT) >>

FriendshipUpdateFields ==
    << Req("user_id", IntT),
       Opt("user_name", Constr(FriendNameMax)),
       Req("friend_id", IntT),
       Opt("friend_name", Constr(FriendNameMax)),
       Opt("confirmed", DateTimeT),
       Opt("name", Constr(FriendNameMax)) >>

FriendshipListUpdateFields ==
    << Opt("friends_outgoing", ListOf("FriendshipUpdate")),
       Opt("friends_incoming", ListOf("FriendshipUpdate")) >>

OreCreateFields == << Req("name", Constr(EntityNameMax)) >>

\* Variant: name declared without Optional.
OreUpdateFieldsRequired == << Req("name", Constr(EntityNameMax)) >>

OreUpdateFields == << Opt("name", Constr(EntityNameMax)) >>

StationOreEfficiencyFields ==
    << Req("efficiency_bonus", FloatT),
       Req("ore_id", IntT),
       Opt("ore_name", StrT) >>

StationFields ==
    << Req("id", IntT),
       Req("name", StrT),
       Req("created", DateTimeT),
       Req("updated", DateTimeT),
       Req("efficiencies", ListOf("StationOreEfficiency")) >>

StationCreateFields ==
    << Req("name", Constr(EntityNameMax)),
       Req("efficiencies", ListOf("StationOreEfficiency")) >>

StationUpdateFields ==
    << Opt("name", Constr(EntityNameMax)),
       Opt("efficiencies", ListOf("StationOreEfficiency")) >>

\* Variant: efficiency declared without its upper bound.
MethodOreEfficiencyFieldsNoUpper ==
    << Req("efficiency", ConfloatGt(EffGt)),
       Req("duration", ConfloatGt(DurGt)),
       Req("ore_id", IntT),
       Opt("ore_name", StrT) >>

MethodOreEfficiencyFields ==
    << Req("efficiency", ConfloatGtLe(EffGt, EffLe)),
       Req("duration", ConfloatGt(DurGt)),
       Req("ore_id", IntT),
       Opt("ore_name", StrT) >>

MethodFields ==
    << Req("id", IntT),
       Req("name", StrT),
       Req("created", DateTimeT),
       Req("updated", DateTimeT),
       Req("efficiencies", ListOf("MethodOreEfficiency")) >>

MethodCreateFields ==
    << Req("name", Constr(EntityNameMax)),
       Req("efficiencies", ListOf("MethodOreEfficiency")) >>

MethodUpdateFields ==
    << Opt("name", Constr(EntityNameMax)),
       Opt("efficiencies", ListOf("MethodOreEfficiency")) >>

RelatedFields == << Req("id", IntT), Req("name", StrT) >>

MiningSessionCreateFields ==
    << Req("creator_id", IntT),
       Req("name", Constr(EntityNameMax)) >>

MiningSessionUpdateFields ==
    << Opt("name", Constr(EntityNameMax)),
       Opt("archived", DateTimeT),
       Opt("yield_scu", FloatT),
       Opt("yield_uec", FloatT),
       Opt("users_invited", ListOf("Related")) >>

SchemaFields(cls) ==
    CASE cls = "UserCreate" -> UserCreateFields
      [] cls = "UserUpdate" -> UserUpdateFields
      [] cls = "UserQuery" -> UserQueryFields
      [] cls = "Friendship" -> FriendshipFields
      [] cls = "FriendshipUpdate" -> FriendshipUpdateFields
      [] cls = "FriendshipListUpdate" -> FriendshipListUpdateFields
      [] cls = "OreCreate" -> OreCreateFields
      [] cls = "OreUpdate" -> OreUpdateFields
      [] cls = "StationOreEfficiency" -> StationOreEfficiencyFields
      [] cls = "Station" -> StationFields
      [] cls = "StationCreate" -> StationCreateFields
      [] cls = "StationUpdate" -> StationUpdateFields
      [] cls = "MethodOreEfficiency" -> MethodOreEfficiencyFields
      [] cls = "Method" -> MethodFields
      [] cls = "MethodCreate" -> MethodCreateFields
      [] cls = "MethodUpdate" -> MethodUpdateFields
      [] cls = "Related" -> RelatedFields
      [] cls = "MiningSessionCreate" -> MiningSessionCreateFields
      [] cls = "MiningSessionUpdate" -> MiningSessionUpdateFields

\* the element type of a List[...] field
ItemType(of) == IF of = "scope" THEN Constr(ScopeMax) ELSE ModelT(of)

\* the modelled classes whose Config sets orm_mode = True
OrmMode ==
    {"Related", "Friendship", "StationOreEfficiency", "Station",
     "MethodOreEfficiency", "Method"}

\* ---------------------------------------------------------- class validators
\* raise ValueError('passwords do not match') is the result "raise".
\* Variant: the comparison left out.
UserCreate_passwords_match_never(value, values) ==
    [raise |-> FALSE, v |-> value]
UserCreate_passwords_match(value, values) ==
    IF "password" \in DOMAIN values /\ value # values["password"]
    THEN [raise |-> TRUE, v |-> value]
    ELSE [raise |-> FALSE, v |-> value]

\* Variant: no comparison against a password that is None.
UserUpdate_passwords_match_skipping_none(value, values) ==
    IF /\ "password" \in DOMAIN values
       /\ values["password"] # Null
       /\ value # values["password"]
    THEN [raise |-> TRUE, v |-> value]
    ELSE [raise |-> FALSE, v |-> value]

\* Variant: compared with values.get('password'), validated or not.
UserUpdate_passwords_match_unguarded(value, values) ==
    IF value # (IF "password" \in DOMAIN values THEN values["password"]
                ELSE Null)
    THEN [raise |-> TRUE, v |-> value]
    ELSE [raise |-> FALSE, v |-> value]

UserUpdate_passwords_match(value, values) ==
    IF "password" \in DOMAIN values /\ value # values["password"]
    THEN [raise |-> TRUE, v |-> value]
    ELSE [raise |-> FALSE, v |-> value]

ClassValidator(post, value, values) ==
    IF post = "UserCreate.passwords_match"
    THEN UserCreate_passwords_match(value, values)
    ELSE UserUpdate_passwords_match(value, values)

\* ------------------------------------------------------------- validation
\* The result of validating one value: exc is an exception that is not a
\* validation failure and escapes; errs are the failures recorded against
\* the value (at = index + 1 of a list item, sub = field of a nested model).
Ok(v) == [exc |-> "none", errs |-> <<>>, v |-> v]
Err(msg) == [exc |-> "none", errs |-> <<[at |-> 0, sub |-> "", msg |-> msg]>>,
             v |-> Null]
Raised(e) == [exc |-> e, errs |-> <<>>, v |-> Null]

\* The result of constructing a schema: the instance (values, fields_set),
\* or the ValidationError (errors), or another exception.
Built(values, fields_set) ==
    [exc |-> "none", values |-> values, fields_set |-> fields_set,
     errors |-> <<>>]
Invalid(errors) ==
    [exc |-> "ValidationError", values |-> Empty, fields_set |-> {},
     errors |-> errors]
Escaped(e) ==
    [exc |-> e, values |-> Empty, fields_set |-> {}, errors |-> <<>>]

RECURSIVE TypeValidate(_, _)
RECURSIVE ValidateItems(_, _, _, _)
RECURSIVE ValidateFields(_, _, _, _)
RECURSIVE Construct(_, _)
RECURSIVE FromOrm(_, _)

\* constr: str_validator, then the length check, then the regex.
StrValidate(type, v) ==
    IF v.t # "str" THEN Err("str type expected")
    ELSE IF type.has_max /\ TooLong(v, type.max_length)
         THEN Err("ensure this value has at most max_length characters")
    ELSE IF type.regex /\ ~MailRegexMatches(v)
         THEN Err("string does not match regex")
    ELSE Ok(v)

\* float_validator (an int is converted), then gt and le.
FloatValidate(type, v) ==
    IF v.t \notin {"float", "int"} THEN Err("value is not a valid float")
    ELSE LET f == IF v.t = "int" THEN Float(v.n * FloatDen) ELSE v IN
         IF type.has_gt /\ GtFails(f, type.gt)
         THEN Err("ensure this value is greater than gt")
         ELSE IF type.has_le /\ LeFails(f, type.le)
         THEN Err("ensure this value is less than or equal to le")
         ELSE Ok(f)

\* What a nested construction contributes to the enclosing field.
Nested(cls, o) ==
    IF o.exc = "none" THEN Ok(Model(cls, o.values, o.fields_set))
    ELSE IF o.exc = "ValidationError"
    THEN [exc |-> "none",
          errs |-> [k \in 1..Len(o.errors) |->
                      [at |-> 0, sub |-> o.errors[k].field,
                       msg |-> o.errors[k].msg]],
          v |-> Null]
    ELSE Raised(o.exc)

\* BaseModel.validate: a dict is constructed from, any other object goes to
\* from_orm when the class is in orm_mode.
ModelValidate(cls, v) ==
    IF v.t = "model" /\ v.cls = cls THEN Ok(v)
    ELSE IF v.t = "dict" \/ (v.t = "obj" /\ cls \in OrmMode)
    THEN Nested(cls, IF v.t = "dict" THEN Construct(cls, v.d)
                     ELSE FromOrm(cls, v))
    ELSE Err("value is not a valid dict")

\* The items of a list are validated one by one; every failing item is
\* recorded, an escaping exception ends the validation.
ValidateItems(type, items, i, acc) ==
    IF i > Len(items) THEN acc
    ELSE LET r == TypeValidate(type, items[i]) IN
         IF r.exc # "none" THEN Raised(r.exc)
         ELSE ValidateItems(type, items, i + 1,
                  IF r.errs # <<>>
                  THEN [acc EXCEPT !.errs = @ \o
                          [k \in 1..Len(r.errs) |-> [r.errs[k] EXCEPT !.at = i]],
                                   !.v = Null]
                  ELSE IF acc.errs # <<>> THEN acc
                  ELSE [acc EXCEPT !.v = List(Append(@.items, r.v))])

ListValidate(type, v) ==
    IF v.t # "list" THEN Err("value is not a valid list")
    ELSE ValidateItems(ItemType(type.of), v.items, 1, Ok(List(<<>>)))

TypeValidate(type, v) ==
    CASE type.kind = "str" -> StrValidate(type, v)
      [] type.kind = "bool" ->
            IF v.t = "bool" THEN Ok(v)
            ELSE Err("value could not be parsed to a boolean")
      [] type.kind = "int" ->
            IF v.t = "int" THEN Ok(v) ELSE Err("value is not a valid integer")
      [] type.kind = "float" -> FloatValidate(type, v)
      [] type.kind = "datetime" ->
            IF v.t = "datetime" THEN Ok(v) ELSE Err("invalid datetime format")
      [] type.kind = "list" -> ListValidate(type, v)
      [] type.kind = "model" -> ModelValidate(type.of, v)

\* The class validator of a field runs after the field's own validators.
ApplyPost(f, v, values) ==
    LET r == ClassValidator(f.post, v, values) IN
    IF r.raise THEN Err("passwords do not match") ELSE Ok(r.v)

\* ModelField.validate: None is accepted by an Optional field (its class
\* validator still runs) and rejected by any other.
FieldValidate(f, v, values) ==
    IF v = Null
    THEN IF f.allow_none
         THEN (IF f.post # "" THEN ApplyPost(f, v, values) ELSE Ok(Null))
         ELSE Err("none is not an allowed value")
    ELSE LET r == TypeValidate(f.type, v) IN
         IF r.exc # "none" \/ r.errs # <<>> \/ f.post = "" THEN r
         ELSE ApplyPost(f, r.v, values)

\* The value of an omitted optional field is stored without validation.
\* Variant: a defaulted field counted among the fields set.
StoreDefaultAsSet(acc, f) ==
    [acc EXCEPT !.values = Put(@, f.name, Null),
                !.fields_set = @ \cup {f.name}]
StoreDefault(acc, f) == [acc EXCEPT !.values = Put(@, f.name, Null)]

Tag(name, errs) ==
    [k \in 1..Len(errs) |->
        [field |-> name, at |-> errs[k].at, sub |-> errs[k].sub,
         msg |-> errs[k].msg]]

\* validate_model: the fields in declaration order; a failing field is left
\* out of values and its errors are added to the list.
Missing(acc, f) ==
    IF f.required
    THEN [acc EXCEPT !.errors =
             Append(@, [field |-> f.name, at |-> 0, sub |-> "",
                        msg |-> "field required"])]
    ELSE StoreDefault(acc, f)

Supplied(acc, f, r) ==
    LET seen == [acc EXCEPT !.fields_set = @ \cup {f.name}] IN
    IF r.exc # "none" THEN Escaped(r.exc)
    ELSE IF r.errs # <<>>
    THEN [seen EXCEPT !.errors = @ \o Tag(f.name, r.errs)]
    ELSE [seen EXCEPT !.values = Put(@, f.name, r.v)]

ValidateFields(fields, i, data, acc) ==
    IF i > Len(fields) \/ acc.exc # "none" THEN acc
    ELSE LET f == fields[i] IN
         ValidateFields(fields, i + 1, data,
             IF f.name \notin DOMAIN data THEN Missing(acc, f)
             ELSE Supplied(acc, f,
                           FieldValidate(f, data[f.name], acc.values)))

\* cls(**data): the instance, or the ValidationError raised.
Construct(cls, data) ==
    LET r == ValidateFields(SchemaFields(cls), 1, data, Built(Empty, {})) IN
    IF r.exc # "none" THEN Escaped(r.exc)
    ELSE IF r.errors # <<>> THEN Invalid(r.errors)
    ELSE r

\* ------------------------------------------------------------ projections
\* obj.rel.name raises AttributeError when rel is None.
HasName(obj, rel) ==
    /\ rel \in DOMAIN obj.attrs
    /\ obj.attrs[rel].t = "obj"
    /\ "name" \in DOMAIN obj.attrs[rel].attrs

\* A from_orm override evaluates the keyword arguments it passes to cls(...);
\* reading one of them may raise.
Kwargs(k) == [raised |-> FALSE, kwargs |-> k]
AttributeError == [raised |-> TRUE, kwargs |-> Empty]

\* Variant: the names read off the record itself.
Friendship_from_orm_stored(friendship) ==
    IF ~(HasName(friendship, "user") /\ HasName(friendship, "friend"))
    THEN AttributeError
    ELSE Kwargs([user_id |-> friendship.attrs["user_id"],
                 user_name |-> friendship.attrs["user_name"],
                 friend_id |-> friendship.attrs["friend_id"],
                 friend_name |-> friendship.attrs["friend_name"],
                 created |-> friendship.attrs["created"],
                 confirmed |-> friendship.attrs["confirmed"]])

Friendship_from_orm(friendship) ==
    IF ~(HasName(friendship, "user") /\ HasName(friendship, "friend"))
    THEN AttributeError
    ELSE Kwargs([user_id |-> friendship.attrs["user_id"],
                 user_name |-> friendship.attrs["user"].attrs["name"],
                 friend_id |-> friendship.attrs["friend_id"],
                 friend_name |-> friendship.attrs["friend"].attrs["name"],
                 created |-> friendship.attrs["created"],
                 confirmed |-> friendship.attrs["confirmed"]])

\* Variant: a missing ore leaves ore_name null.
StationOreEfficiency_from_orm_defaulting(obj) ==
    Kwargs([efficiency_bonus |-> obj.attrs["efficiency_bonus"],
            ore_id |-> obj.attrs["ore_id"],
            ore_name |-> IF HasName(obj, "ore")
                         THEN obj.attrs["ore"].attrs["name"] ELSE Null])

StationOreEfficiency_from_orm(obj) ==
    IF ~HasName(obj, "ore") THEN AttributeError
    ELSE Kwargs([efficiency_bonus |-> obj.attrs["efficiency_bonus"],
                 ore_id |-> obj.attrs["ore_id"],
                 ore_name |-> obj.attrs["ore"].attrs["name"]])

MethodOreEfficiency_from_orm(obj) ==
    IF ~HasName(obj, "ore") THEN AttributeError
    ELSE Kwargs([efficiency |-> obj.attrs["efficiency"],
                 duration |-> obj.attrs["duration"],
                 ore_id |-> obj.attrs["ore_id"],
                 ore_name |-> obj.attrs["ore"].attrs["name"]])

\* BaseModel.from_orm reads every declared field off the object.
Default_from_orm(cls, obj) == Kwargs(obj.attrs)

\* cls.from_orm(obj): the override of the class, or the inherited one, and
\* the construction it ends with.
FromOrm(cls, obj) ==
    LET k == CASE cls = "Friendship" -> Friendship_from_orm(obj)
               [] cls = "StationOreEfficiency" ->
                      StationOreEfficiency_from_orm(obj)
               [] cls = "MethodOreEfficiency" ->
                      MethodOreEfficiency_from_orm(obj)
               [] OTHER -> Default_from_orm(cls, obj)
    IN IF k.raised THEN Escaped("AttributeError")
       ELSE Construct(cls, k.kwargs)

\* ----------------------------------------------------------------- inputs
SeqsUpTo(S, n) == UNION {[1..k -> S] : k \in 0..n}
Bodies == SeqsUpTo(Alphabet, MaxBody)

\* A drawn field that is left out of the payload.
Absent == [t |-> "absent"]
Strip(r) == [n \in {m \in DOMAIN r : r[m] # Absent} |-> r[n]]

Short == Str(<<"a">>, 0)
Other == Str(<<"@">>, 0)
NameVals == {Str(<<>>, NameMax), Str(<<>>, NameMax + 1)}
MailVals ==
    {Str(b, 0) : b \in Bodies}
        \cup {Str(<<"a", "@">>, 1), Str(<<"a", "@", "a", "@">>, 1),
              Str(<<"a", "@">>, MailMax - 2), Str(<<"a", "@">>, MailMax - 1)}
PasswordVals == {Short, Str(<<>>, PasswordMax), Str(<<>>, PasswordMax + 1)}
ScopesVals ==
    {List(l) : l \in SeqsUpTo({Str(<<>>, ScopeMax), Str(<<>>, ScopeMax + 1)},
                              MaxScopes)}
EntityNameVals ==
    {Short, Str(<<>>, EntityNameMax), Str(<<>>, EntityNameMax + 1)}
FriendNameVals == {Short, Str(<<>>, FriendNameMax + 1)}
FloatVals == {Float(n) : n \in (0 - 1)..(FloatDen + 1)}

UserCreateDraws ==
    [name : NameVals \cup {Absent},
     mail : MailVals \cup {Absent},
     password : PasswordVals \cup {Absent, Null},
     password_confirm : PasswordVals \cup {Absent, Null},
     is_google : {Bool(TRUE), Absent},
     is_active : {Bool(FALSE), Null},
     scopes : ScopesVals \cup {Absent, Null}]

UserUpdateDraws ==
    [name : NameVals \cup {Absent},
     mail : MailVals \cup {Absent, Null},
     password : PasswordVals \cup {Absent, Null},
     password_confirm : PasswordVals \cup {Absent, Null},
     is_google : {Bool(TRUE), Absent},
     is_active : {Absent, Null},
     scopes : ScopesVals \cup {Absent, Null}]

UserQueryDraws ==
    [id : {IntVal(1), Absent},
     name : {Short, Absent, Null},
     mail : MailVals \cup {Absent, Null},
     is_google : {Absent},
     is_active : {Bool(TRUE), Absent},
     created : {DateTime(1), Absent},
     updated : {Absent},
     last_login : {Absent, Null}]

FriendshipUpdateDraws ==
    [user_id : {IntVal(1), Absent, Null},
     user_name : FriendNameVals \cup {Absent, Null},
     friend_id : {IntVal(2), Absent},
     friend_name : {Short, Absent},
     confirmed : {DateTime(1), Absent, Null},
     name : {Short, Absent}]

FriendshipUpdateItems ==
    {Dict([user_id |-> IntVal(1), friend_id |-> IntVal(2)]),
     Dict([user_id |-> IntVal(1)]),
     Dict([user_id |-> IntVal(1), friend_id |-> IntVal(2),
           name |-> Str(<<>>, FriendNameMax + 1)])}

FriendshipListUpdateDraws ==
    [friends_outgoing :
        {List(l) : l \in SeqsUpTo(FriendshipUpdateItems, MaxList)}
            \cup {Absent, Null},
     friends_incoming :
        {List(l) : l \in SeqsUpTo(FriendshipUpdateItems, MaxList)}
            \cup {Absent, Null}]

OreDraws == [name : EntityNameVals \cup {Absent, Null}]

StationOreEfficiencyItems ==
    {Dict(Strip(r)) : r \in [efficiency_bonus : {Float(0 - 1)},
                             ore_id : {IntVal(1), Absent},
                             ore_name : {Short, Absent}]}

StationDraws ==
    [name : EntityNameVals \cup {Absent, Null},
     efficiencies :
        {List(l) : l \in SeqsUpTo(StationOreEfficiencyItems, MaxList)}
            \cup {Absent, Null}]

MethodOreEfficiencyDraws ==
    [efficiency : FloatVals \cup {IntVal(0), IntVal(1), Absent},
     duration : {Float(0 - 1), Float(0), Float(1), IntVal(1)},
     ore_id : {IntVal(1), Absent},
     ore_name : {Short, Absent, Null}]

MethodOreEfficiencyItems ==
    {Dict(Strip(r)) : r \in [efficiency : {Float(0), Float(FloatDen)},
                             duration : {Float(1)},
                             ore_id : {IntVal(1)},
                             ore_name : {Short, Absent}]}

MethodDraws ==
    [name : EntityNameVals \cup {Absent, Null},
     efficiencies :
        {List(l) : l \in SeqsUpTo(MethodOreEfficiencyItems, MaxList)}
            \cup {Absent, Null}]

MiningSessionCreateDraws ==
    [creator_id : {IntVal(1), Absent},
     name : EntityNameVals \cup {Absent, Null}]

MiningSessionUpdateDraws ==
    [name : EntityNameVals \cup {Absent, Null},
     archived : {DateTime(1), Absent, Null},
     yield_scu : {Float(1), Absent, Null},
     yield_uec : {Float(0 - 1), Absent},
     users_invited :
        {List(<<>>), List(<<Dict([id |-> IntVal(1), name |-> Short])>>),
         List(<<Dict([id |-> IntVal(1)])>>), Absent, Null}]

\* Persisted records. A relation is the related record, or None when it is
\* not there; user_name and friend_name are names stored on the record itself.
RelatedObjs ==
    {Obj([id |-> IntVal(1), name |-> n]) : n \in {Short, Other, Null}}
        \cup {Null}

FriendshipObjs ==
    {Obj(r) : r \in [user_id : {IntVal(1)},
                     friend_id : {IntVal(2)},
                     created : {DateTime(1)},
                     confirmed : {DateTime(2), Null},
                     user : RelatedObjs,
                     friend : RelatedObjs,
                     user_name : {Short, Other},
                     friend_name : {Short, Other}]}

StationOreEfficiencyObjs ==
    {Obj(r) : r \in [efficiency_bonus : {Float(1), Null},
                     ore_id : {IntVal(1)},
                     ore : RelatedObjs]}

MethodOreEfficiencyObjs ==
    {Obj(r) : r \in [efficiency : FloatVals,
                     duration : {Float(0), Float(1)},
                     ore_id : {IntVal(1), Null},
                     ore : RelatedObjs]}

MethodOreEfficiencyRows ==
    {Obj(r) : r \in [efficiency : {Float(0), Float(1)},
                     duration : {Float(1)},
                     ore_id : {IntVal(1)},
                     ore : {Obj([id |-> IntVal(1), name |-> Short]), Null}]}

StationObjs ==
    {Obj(r) : r \in [id : {IntVal(1)},
                     name : {Short},
                     created : {DateTime(1)},
                     updated : {DateTime(2)},
                     efficiencies :
                        {List(l) :
                            l \in SeqsUpTo(StationOreEfficiencyObjs, MaxList)}]}

MethodObjs ==
    {Obj(r) : r \in [id : {IntVal(1)},
                     name : {Short},
                     created : {DateTime(1)},
                     updated : {DateTime(2)},
                     efficiencies :
                        {List(l) :
                            l \in SeqsUpTo(MethodOreEfficiencyRows, MaxList)}]}

\* ---------------------------------------------------------------- actions
\* No call is in progress.
Idle == op = "idle"

Call(name, arg, result) ==
    /\ op' = name
    /\ input' = arg
    /\ output' = result

ParseUserCreate ==
    /\ Idle
    /\ \E r \in UserCreateDraws :
        Call("UserCreate", Dict(Strip(r)), Construct("UserCreate", Strip(r)))

ParseUserUpdate ==
    /\ Idle
    /\ \E r \in UserUpdateDraws :
        Call("UserUpdate", Dict(Strip(r)), Construct("UserUpdate", Strip(r)))

ParseUserQuery ==
    /\ Idle
    /\ \E r \in UserQueryDraws :
        Call("UserQuery", Dict(Strip(r)), Construct("UserQuery", Strip(r)))

ParseFriendshipUpdate ==
    /\ Idle
    /\ \E r \in FriendshipUpdateDraws :
        Call("FriendshipUpdate", Dict(Strip(r)),
             Construct("FriendshipUpdate", Strip(r)))

ParseFriendshipListUpdate ==
    /\ Idle
    /\ \E r \in FriendshipListUpdateDraws :
        Call("FriendshipListUpdate", Dict(Strip(r)),
             Construct("FriendshipListUpdate", Strip(r)))

ParseOreCreate ==
    /\ Idle
    /\ \E r \in OreDraws :
        Call("OreCreate", Dict(Strip(r)),
             Construct("OreCreate", Strip(r)))

ParseOreUpdate ==
    /\ Idle
    /\ \E r \in OreDraws :
        Call("OreUpdate", Dict(Strip(r)),
             Construct("OreUpdate", Strip(r)))

ParseStationCreate ==
    /\ Idle
    /\ \E r \in StationDraws :
        Call("StationCreate", Dict(Strip(r)),
             Construct("StationCreate", Strip(r)))

ParseStationUpdate ==
    /\ Idle
    /\ \E r \in StationDraws :
        Call("StationUpdate", Dict(Strip(r)),
             Construct("StationUpdate", Strip(r)))

ParseMethodOreEfficiency ==
    /\ Idle
    /\ \E r \in MethodOreEfficiencyDraws :
        Call("MethodOreEfficiency", Dict(Strip(r)),
             Construct("MethodOreEfficiency", Strip(r)))

ParseMethodCreate ==
    /\ Idle
    /\ \E r \in MethodDraws :
        Call("MethodCreate", Dict(Strip(r)),
             Construct("MethodCreate", Strip(r)))

ParseMethodUpdate ==
    /\ Idle
    /\ \E r \in MethodDraws :
        Call("MethodUpdate", Dict(Strip(r)),
             Construct("MethodUpdate", Strip(r)))

ParseMiningSessionCreate ==
    /\ Idle
    /\ \E r \in MiningSessionCreateDraws :
        Call("MiningSessionCreate", Dict(Strip(r)),
             Construct("MiningSessionCreate", Strip(r)))

ParseMiningSessionUpdate ==
    /\ Idle
    /\ \E r \in MiningSessionUpdateDraws :
        Call("MiningSessionUpdate", Dict(Strip(r)),
             Construct("MiningSessionUpdate", Strip(r)))

ProjectFriendship ==
    /\ Idle
    /\ \E o \in FriendshipObjs :
        Call("Friendship.from_orm", o, FromOrm("Friendship", o))

ProjectStationOreEfficiency ==
    /\ Idle
    /\ \E o \in StationOreEfficiencyObjs :
        Call("StationOreEfficiency.from_orm", o, FromOrm("StationOreEfficiency", o))

ProjectMethodOreEfficiency ==
    /\ Idle
    /\ \E o \in MethodOreEfficiencyObjs :
        Call("MethodOreEfficiency.from_orm", o, FromOrm("MethodOreEfficiency", o))

ProjectStation ==
    /\ Idle
    /\ \E o \in StationObjs :
        Call("Station.from_orm", o, FromOrm("Station", o))

ProjectMethod ==
    /\ Idle
    /\ \E o \in MethodObjs :
        Call("Method.from_orm", o, FromOrm("Method", o))

\* The result is handed to the caller; the layer keeps nothing.
Return ==
    /\ op # "idle"
    /\ op' = "idle"
    /\ input' = Dict(Empty)
    /\ output' = Built(Empty, {})

Init ==
    /\ op = "idle"
    /\ input = Dict(Empty)
    /\ output = Built(Empty, {})

Next ==
    \/ ParseUserCreate
    \/ ParseUserUpdate
    \/ ParseUserQuery
    \/ ParseFriendshipUpdate
    \/ ParseFriendshipListUpdate
    \/ ParseOreCreate
    \/ ParseOreUpdate
    \/ ParseStationCreate
    \/ ParseStationUpdate
    \/ ParseMethodOreEfficiency
    \/ ParseMethodCreate
    \/ ParseMethodUpdate
    \/ ParseMiningSessionCreate
    \/ ParseMiningSessionUpdate
    \/ ProjectFriendship
    \/ ProjectStationOreEfficiency
    \/ ProjectMethodOreEfficiency
    \/ ProjectStation
    \/ ProjectMethod
    \/ Return

Spec == Init /\ [][Next]_vars

\* ============================================================== properties
\* The request or record of the call in progress and what came of it.
Payload == input.d
Record == input.attrs
Has(k) == k \in DOMAIN Payload
Succeeded == output.exc = "none"
Failed == output.exc = "ValidationError"
ErrorFields == {output.errors[i].field : i \in 1..Len(output.errors)}
MismatchReported ==
    \E i \in 1..Len(output.errors) :
        /\ output.errors[i].field = "password_confirm"
        /\ output.errors[i].msg = "passwords do not match"

UserWriteOps == {"UserCreate", "UserUpdate"}
MailOps == {"UserCreate", "UserUpdate", "UserQuery"}
UpdateOps ==
    {"FriendshipUpdate", "FriendshipListUpdate", "UserUpdate", "OreUpdate",
     "StationUpdate", "MethodUpdate", "MiningSessionUpdate"}
CreateOps ==
    {"UserCreate", "OreCreate", "StationCreate", "MethodCreate",
     "MiningSessionCreate"}

\* The constraints as the schemas declare them, stated on the payload.
IsStr(v) == v.t = "str"
Within(v, max) == IsStr(v) /\ StrLen(v) <= max
NullOr(v, ok) == v = Null \/ ok
AtCount(cs) == Cardinality({i \in 1..Len(cs) : cs[i] = "@"})
OneAt(v) ==
    LET cs == Chars(v) IN
    /\ AtCount(cs) = 1
    /\ cs[1] # "@"
    /\ cs[Len(cs)] # "@"
AllItems(v, P(_)) == v.t = "list" /\ \A i \in 1..Len(v.items) : P(v.items[i])

\* The password field on its own: present in the validated values or not.
PasswordPasses ==
    /\ Has("password")
    /\ IF Payload["password"] = Null THEN op = "UserUpdate"
       ELSE Within(Payload["password"], PasswordMax)
\* What password_confirm is compared with, when it is compared at all.
Compared ==
    IF Has("password") THEN Payload["password"] ELSE Null
Comparable ==
    PasswordPasses \/ (op = "UserUpdate" /\ ~Has("password"))

\* C1 (as stated): a UserCreate or UserUpdate payload that supplies password
\* and password_confirm with different values fails with an error on
\* password_confirm, whatever the other fields, a too long password included.
C1_MismatchAlwaysOnConfirm ==
    (/\ op \in UserWriteOps
     /\ Has("password") /\ Has("password_confirm")
     /\ IsStr(Payload["password"]) /\ IsStr(Payload["password_confirm"])
     /\ Payload["password"] # Payload["password_confirm"])
        => (Failed /\ "password_confirm" \in ErrorFields)

\* C1 (amended): a UserCreate or UserUpdate payload that supplies password
\* and password_confirm with different values fails; the failure names
\* password_confirm when password itself passes its own validation, and names
\* password when it does not.
C1_MismatchOnConfirmWhenPasswordValid ==
    (/\ op \in UserWriteOps
     /\ Has("password") /\ Has("password_confirm")
     /\ Payload["password"] # Payload["password_confirm"])
        => /\ Failed
           /\ PasswordPasses => "password_confirm" \in ErrorFields
           /\ ~PasswordPasses => "password" \in ErrorFields

C1_Witness ==
    /\ op = "UserCreate"
    /\ Has("password") /\ Has("password_confirm")
    /\ Payload["password"] = Short
    /\ Payload["password_confirm"] = Str(<<>>, PasswordMax)
    /\ MismatchReported

\* C2 (as stated): a UserUpdate payload that supplies only one of password
\* and password_confirm never fails on the password-match rule and has no
\* error on password_confirm when what it supplies is valid.
C2_LoneFieldNeverFails ==
    (/\ op = "UserUpdate"
     /\ Has("password") # Has("password_confirm")
     /\ Has("password") => NullOr(Payload["password"],
                                  Within(Payload["password"], PasswordMax))
     /\ Has("password_confirm") =>
            NullOr(Payload["password_confirm"],
                   Within(Payload["password_confirm"], PasswordMax)))
        => (~MismatchReported /\ "password_confirm" \notin ErrorFields)

\* C2 (amended): a UserUpdate payload that supplies only password never fails
\* on the password-match rule; one that supplies only password_confirm is
\* compared with the null the omitted password stands for, and fails on
\* password_confirm exactly when it supplies a string within the length limit.
C2_LonePasswordPassesLoneConfirmCompared ==
    /\ (op = "UserUpdate" /\ Has("password") /\ ~Has("password_confirm"))
          => (~MismatchReported /\ "password_confirm" \notin ErrorFields)
    /\ (op = "UserUpdate" /\ ~Has("password") /\ Has("password_confirm"))
          => (MismatchReported
                <=> Within(Payload["password_confirm"], PasswordMax))

C2_Witness ==
    /\ op = "UserUpdate"
    /\ DOMAIN Payload = {"password_confirm"}
    /\ Payload["password_confirm"] = Short
    /\ MismatchReported

\* C3: in UserCreate, UserUpdate and UserQuery a mail string that is not
\* exactly one "@" between two non-empty parts fails with an error on mail,
\* and one that is (and is within the length limit of the schema) is accepted
\* unchanged.
MailLimitOk ==
    op = "UserQuery" \/ StrLen(Payload["mail"]) <= MailMax
C3_MailFormat ==
    (op \in MailOps /\ Has("mail") /\ IsStr(Payload["mail"]))
        => /\ ~OneAt(Payload["mail"]) => (Failed /\ "mail" \in ErrorFields)
           /\ (OneAt(Payload["mail"]) /\ MailLimitOk) =>
                 /\ "mail" \notin ErrorFields
                 /\ Succeeded => output.values["mail"] = Payload["mail"]

C3_Witness ==
    /\ op = "UserQuery"
    /\ Has("mail")
    /\ Payload["mail"] = Str(<<"a", "@", "a", "@">>, 1)
    /\ "mail" \in ErrorFields

\* A number as a multiple of 1/FloatDen.
IsNum(v) == v.t \in {"float", "int"}
Scaled(v) == IF v.t = "int" THEN v.n * FloatDen ELSE v.num
EfficiencyInRange(v) == IsNum(v) /\ Scaled(v) > 0 /\ Scaled(v) <= FloatDen
DurationPositive(v) == IsNum(v) /\ Scaled(v) > 0

\* C4: MethodOreEfficiency is constructed, from a payload and through
\* from_orm alike, exactly when 0 < efficiency <= 1 and duration > 0, given
\* an integer ore_id (and, for a record, its ore relation resolved).
C4_EfficiencyRange ==
    /\ (op = "MethodOreEfficiency" /\ Has("ore_id")
            /\ Payload["ore_id"].t = "int")
          => (Succeeded <=>
                /\ Has("efficiency")
                /\ EfficiencyInRange(Payload["efficiency"])
                /\ DurationPositive(Payload["duration"]))
    /\ (op = "MethodOreEfficiency.from_orm" /\ Record["ore_id"].t = "int"
            /\ Record["ore"] # Null)
          => /\ Succeeded <=>
                  /\ EfficiencyInRange(Record["efficiency"])
                  /\ DurationPositive(Record["duration"])
             /\ ~Succeeded => Failed

C4_Witness ==
    /\ op = "MethodOreEfficiency.from_orm"
    /\ Record["ore"] # Null
    /\ Record["efficiency"] = Float(FloatDen)
    /\ Record["duration"] = Float(1)
    /\ Succeeded

FieldNames(cls) ==
    {SchemaFields(cls)[i].name : i \in 1..Len(SchemaFields(cls))}

\* C5: in every Update schema a field left out of the payload is absent from
\* the fields the parsed structure records as set, a field supplied as null
\* is among them, and the two parses never give the same result when either
\* yields a structure.
C5_AbsentIsNotNull ==
    op \in UpdateOps =>
        \A f \in FieldNames(op) \ DOMAIN Payload :
            LET withNull == Construct(op, Put(Payload, f, Null)) IN
            /\ Succeeded => (f \notin output.fields_set
                                /\ output.values[f] = Null)
            /\ withNull.exc = "none" => f \in withNull.fields_set
            /\ (Succeeded \/ withNull.exc = "none") => withNull # output

C5_Witness ==
    /\ op = "MiningSessionUpdate"
    /\ ~Has("archived")
    /\ Succeeded
    /\ Construct(op, Put(Payload, "archived", Null)).exc = "none"

\* The supplied fields of an Update payload, each valid on its own.
OptWithin(k, max) == Has(k) => NullOr(Payload[k], Within(Payload[k], max))
OptKind(k, kinds) == Has(k) => NullOr(Payload[k], Payload[k].t \in kinds)
OptList(k, P(_)) == Has(k) => NullOr(Payload[k], AllItems(Payload[k], P))
ScopeValid(v) == Within(v, ScopeMax)
FriendshipKeys == {"user_id", "friend_id"}
FriendshipItemValid(v) ==
    /\ v.t = "dict"
    /\ \A k \in DOMAIN v.d \cap FriendshipKeys : v.d[k].t = "int"
    /\ \A k \in DOMAIN v.d \cap {"user_name", "friend_name", "name"} :
          NullOr(v.d[k], Within(v.d[k], FriendNameMax))
StationItemValid(v) ==
    /\ v.t = "dict"
    /\ {"efficiency_bonus", "ore_id"} \subseteq DOMAIN v.d
    /\ IsNum(v.d["efficiency_bonus"])
    /\ v.d["ore_id"].t = "int"
MethodItemValid(v) ==
    /\ v.t = "dict"
    /\ {"efficiency", "duration", "ore_id"} \subseteq DOMAIN v.d
    /\ EfficiencyInRange(v.d["efficiency"])
    /\ DurationPositive(v.d["duration"])
    /\ v.d["ore_id"].t = "int"
RelatedItemValid(v) ==
    /\ v.t = "dict"
    /\ {"id", "name"} \subseteq DOMAIN v.d
    /\ v.d["id"].t = "int"
    /\ IsStr(v.d["name"])

SuppliedValid ==
    CASE op = "FriendshipUpdate" ->
            /\ \A k \in DOMAIN Payload \cap FriendshipKeys :
                  Payload[k].t = "int"
            /\ OptWithin("user_name", FriendNameMax)
            /\ OptWithin("friend_name", FriendNameMax)
            /\ OptKind("confirmed", {"datetime"})
            /\ OptWithin("name", FriendNameMax)
      [] op = "FriendshipListUpdate" ->
            /\ OptList("friends_outgoing", FriendshipItemValid)
            /\ OptList("friends_incoming", FriendshipItemValid)
      [] op = "UserUpdate" ->
            /\ OptWithin("name", NameMax)
            /\ Has("mail") => NullOr(Payload["mail"],
                                     /\ Within(Payload["mail"], MailMax)
                                     /\ OneAt(Payload["mail"]))
            /\ OptWithin("password", PasswordMax)
            /\ OptWithin("password_confirm", PasswordMax)
            /\ (Has("password") /\ Has("password_confirm"))
                  => Payload["password"] = Payload["password_confirm"]
            /\ OptKind("is_google", {"bool"})
            /\ OptKind("is_active", {"bool"})
            /\ OptList("scopes", ScopeValid)
      [] op = "OreUpdate" -> OptWithin("name", EntityNameMax)
      [] op = "StationUpdate" ->
            /\ OptWithin("name", EntityNameMax)
            /\ OptList("efficiencies", StationItemValid)
      [] op = "MethodUpdate" ->
            /\ OptWithin("name", EntityNameMax)
            /\ OptList("efficiencies", MethodItemValid)
      [] op = "MiningSessionUpdate" ->
            /\ OptWithin("name", EntityNameMax)
            /\ OptKind("archived", {"datetime"})
            /\ OptKind("yield_scu", {"float", "int"})
            /\ OptKind("yield_uec", {"float", "int"})
            /\ OptList("users_invited", RelatedItemValid)

\* C6 (as stated): in every Update schema every field is optional: the empty
\* payload and any payload supplying a subset of the fields with valid values
\* validates.
C6_EveryUpdateFieldOptional ==
    (op \in UpdateOps /\ SuppliedValid) => Succeeded

HasKeys(v) == v.t = "dict" /\ FriendshipKeys \subseteq DOMAIN v.d
KeysSupplied ==
    /\ op = "FriendshipUpdate" => FriendshipKeys \subseteq DOMAIN Payload
    /\ op = "FriendshipListUpdate" =>
          /\ OptList("friends_outgoing", HasKeys)
          /\ OptList("friends_incoming", HasKeys)
ConfirmAgrees ==
    (op = "UserUpdate" /\ Has("password_confirm"))
        => Payload["password_confirm"] = Compared

\* C6 (amended): in every Update schema except FriendshipUpdate every field is
\* optional; FriendshipUpdate, alone or as an item of FriendshipListUpdate,
\* requires user_id and friend_id. A payload supplying a subset of the fields
\* with valid values (those two included where required) validates and
\* records exactly the supplied fields as set, provided a supplied UserUpdate
\* password_confirm equals the password, an omitted password standing as null.
C6_UpdateFieldsOptionalButKeys ==
    (op \in UpdateOps /\ SuppliedValid /\ KeysSupplied /\ ConfirmAgrees)
        => (Succeeded /\ output.fields_set = DOMAIN Payload)

C6_Witness ==
    /\ op = "UserUpdate"
    /\ DOMAIN Payload = {"name"}
    /\ Payload["name"] = Str(<<>>, NameMax)
    /\ Succeeded

\* The fields of a UserCreate/UserUpdate payload that break their own
\* declared constraint.
UserRequired ==
    IF op = "UserCreate"
    THEN {"name", "mail", "password", "password_confirm", "is_google",
          "is_active"}
    ELSE {}
FieldBad(k) ==
    IF ~Has(k) THEN k \in UserRequired
    ELSE IF Payload[k] = Null THEN k \in UserRequired
    ELSE CASE k = "name" -> ~Within(Payload[k], NameMax)
           [] k = "mail" ->
                ~(Within(Payload[k], MailMax) /\ OneAt(Payload[k]))
           [] k \in {"password", "password_confirm"} ->
                ~Within(Payload[k], PasswordMax)
           [] k \in {"is_google", "is_active"} -> Payload[k].t # "bool"
           [] k = "scopes" -> ~AllItems(Payload[k], ScopeValid)
BadFields == {k \in FieldNames(op) : FieldBad(k)}
MismatchAsStated ==
    /\ Has("password") /\ Has("password_confirm")
    /\ IsStr(Payload["password"]) /\ IsStr(Payload["password_confirm"])
    /\ Payload["password"] # Payload["password_confirm"]
MismatchChecked ==
    /\ Has("password_confirm")
    /\ ~FieldBad("password_confirm")
    /\ Comparable
    /\ Payload["password_confirm"] # Compared

\* C7 (as stated): the fields named in the failure of a UserCreate/UserUpdate
\* payload are all the fields whose constraint is violated, password_confirm
\* among them whenever it differs from the password.
C7_AllViolationsAsStated ==
    op \in UserWriteOps =>
        ErrorFields = BadFields \cup
            (IF MismatchAsStated THEN {"password_confirm"} ELSE {})

\* C7 (amended): the fields named in the failure of a UserCreate/UserUpdate
\* payload are all the fields that break their own constraint, together with
\* password_confirm when it passes its own constraint and differs from the
\* validated password (an omitted UserUpdate password standing as null); the
\* password-match rule is not checked when password fails its own validation.
C7_AllViolationsCollected ==
    op \in UserWriteOps =>
        /\ ErrorFields = BadFields \cup
              (IF MismatchChecked THEN {"password_confirm"} ELSE {})
        /\ Succeeded <=> ErrorFields = {}

C7_Witness ==
    /\ op = "UserCreate"
    /\ ErrorFields = {"name", "mail", "password_confirm", "scopes"}
    /\ MismatchReported

\* A relation that is there and carries a name string.
Named(rel) == Record[rel] # Null /\ IsStr(Record[rel].attrs["name"])

\* C8: Friendship.from_orm takes user_name and friend_name from the related
\* user and friend records, whatever names the source stores itself, and
\* copies user_id, friend_id, created and confirmed unchanged.
C8_FriendshipNamesFromRelations ==
    op = "Friendship.from_orm" =>
        /\ (Named("user") /\ Named("friend")) => Succeeded
        /\ Succeeded =>
              /\ output.values["user_name"] = Record["user"].attrs["name"]
              /\ output.values["friend_name"] = Record["friend"].attrs["name"]
              /\ \A k \in {"user_id", "friend_id", "created", "confirmed"} :
                    output.values[k] = Record[k]

C8_Witness ==
    /\ op = "Friendship.from_orm"
    /\ Succeeded
    /\ Record["user_name"] # Record["user"].attrs["name"]
    /\ Record["friend_name"] # Record["friend"].attrs["name"]
    /\ output.values["user_name"] = Other
    /\ output.values["friend_name"] = Short

\* A row of a Station or Method whose ore is not there.
OreMissing(row) == row.attrs["ore"] = Null
RelationMissing ==
    CASE op \in {"StationOreEfficiency.from_orm",
                 "MethodOreEfficiency.from_orm"} -> Record["ore"] = Null
      [] op = "Friendship.from_orm" ->
            Record["user"] = Null \/ Record["friend"] = Null
      [] op \in {"Station.from_orm", "Method.from_orm"} ->
            \E i \in 1..Len(Record["efficiencies"].items) :
                OreMissing(Record["efficiencies"].items[i])
      [] OTHER -> FALSE

\* C9: a projection whose related record is missing (the ore of an efficiency
\* row, projected alone or as an item of a Station or Method; the user or
\* friend of a Friendship) ends in an error that reaches the caller, never in
\* a structure with the name left null.
C9_MissingRelationFails ==
    RelationMissing => (output.exc = "AttributeError" /\ output.values = Empty)

C9_Witness ==
    /\ op = "Station.from_orm"
    /\ Len(Record["efficiencies"].items) = 2
    /\ ~OreMissing(Record["efficiencies"].items[1])
    /\ OreMissing(Record["efficiencies"].items[2])
    /\ output.exc = "AttributeError"

\* A Create payload that meets every declared constraint of its schema.
ReqWithin(k, max) == Has(k) /\ Within(Payload[k], max)
ReqKind(k, kind) == Has(k) /\ Payload[k].t = kind
ReqList(k, P(_)) == Has(k) /\ AllItems(Payload[k], P)
CreateValid ==
    CASE op = "UserCreate" ->
            /\ ReqWithin("name", NameMax)
            /\ ReqWithin("mail", MailMax) /\ OneAt(Payload["mail"])
            /\ ReqWithin("password", PasswordMax)
            /\ ReqWithin("password_confirm", PasswordMax)
            /\ Payload["password_confirm"] = Payload["password"]
            /\ ReqKind("is_google", "bool")
            /\ ReqKind("is_active", "bool")
            /\ OptList("scopes", ScopeValid)
      [] op = "OreCreate" -> ReqWithin("name", EntityNameMax)
      [] op = "StationCreate" ->
            /\ ReqWithin("name", EntityNameMax)
            /\ ReqList("efficiencies", StationItemValid)
      [] op = "MethodCreate" ->
            /\ ReqWithin("name", EntityNameMax)
            /\ ReqList("efficiencies", MethodItemValid)
      [] op = "MiningSessionCreate" ->
            /\ ReqKind("creator_id", "int")
            /\ ReqWithin("name", EntityNameMax)

\* The constructed value of a field against the value supplied for it.
SameItem(m, w) ==
    IF w.t = "dict"
    THEN m.t = "model" /\ \A k \in DOMAIN w.d : m.values[k] = w.d[k]
    ELSE m = w
Same(v, w) ==
    IF w.t = "list"
    THEN /\ v.t = "list"
         /\ Len(v.items) = Len(w.items)
         /\ \A i \in 1..Len(w.items) : SameItem(v.items[i], w.items[i])
    ELSE v = w

\* C10: a payload that meets every declared constraint of a Create schema
\* (required fields present, strings up to and at their maximum length, mail
\* format, numeric ranges, matching passwords) is constructed, and every
\* field of the result equals the value supplied.
C10_ValidCreateRoundTrips ==
    (op \in CreateOps /\ CreateValid)
        => /\ Succeeded
           /\ output.fields_set = DOMAIN Payload
           /\ \A k \in DOMAIN Payload : Same(output.values[k], Payload[k])

C10_Witness ==
    /\ op = "UserCreate"
    /\ Succeeded
    /\ StrLen(Payload["name"]) = NameMax
    /\ StrLen(Payload["mail"]) = MailMax
    /\ StrLen(Payload["password"]) = PasswordMax
    /\ Has("scopes") /\ Payload["scopes"] # Null
    /\ Len(Payload["scopes"].items) = 1

====
